---- MODULE Spec2Model ----
(***************************************************************************)
(* The Foreign Desk API (src/main.py): a FastAPI application exposing      *)
(* create / read / delete over the "post" collection of a document store,  *)
(* a free-text search, and a diagnostic endpoint.                          *)
(*                                                                         *)
(* Text is modelled as sequences of one-character strings so that          *)
(* substring search, case folding, truncation and the identifier's hex     *)
(* form are computed rather than assumed.  Every value of a document is a  *)
(* record of the same shape (kind, s, l, n) so that any two values can be  *)
(* compared.                                                               *)
(***************************************************************************)
EXTENDS Integers, Sequences, FiniteSets, TLC

VARIABLES
    db,        \* whether the module-level store handle `db` is not None
    store,     \* the documents of collection "post" (each carries "_id")
    nextId,    \* the next identifier the store will assign
    req,       \* the last request handled
    resp,      \* the response to it
    call,      \* what the handler did with the store while serving it
    created,   \* history: the identifier returned and the body sent, for every
               \* POSTed post not deleted since
    deleted,   \* history: identifiers for which DELETE answered "deleted"
    clients    \* concurrent requests in flight (ConcSpec only)

vars == <<db, store, nextId, req, resp, call, created, deleted, clients>>

-----------------------------------------------------------------------------
(* Bounds of the model *)

\* how many POST /api/posts requests a behaviour may hold
MaxPosts == 2
\* the largest explicit limit= a GET /api/posts request carries
MaxLimit == 2
\* how many concurrent requests ConcSpec runs
NumClients == 3

-----------------------------------------------------------------------------
(* Values *)

Min(a, b) == IF a <= b THEN a ELSE b

Str(chars)  == [kind |-> "str",      s |-> chars, l |-> << >>, n |-> 0]
List(elems) == [kind |-> "list",     s |-> << >>, l |-> elems, n |-> 0]
Null        == [kind |-> "null",     s |-> << >>, l |-> << >>, n |-> 0]
DateTime(d) == [kind |-> "datetime", s |-> << >>, l |-> << >>, n |-> d]
Oid(k)      == [kind |-> "oid",      s |-> << >>, l |-> << >>, n |-> k]

\* Python dict helpers: a document is a function from field names to values
NoDoc == [f \in {} |-> Null]
Has(d, f) == f \in DOMAIN d
Get(d, f, default) == IF Has(d, f) THEN d[f] ELSE default
Pop(d, f) == [g \in DOMAIN d \ {f} |-> d[g]]
Put(d, f, v) == [g \in DOMAIN d \cup {f} |-> IF g = f THEN v ELSE d[g]]

-----------------------------------------------------------------------------
(* bson.ObjectId: validity, parsing and string form *)

HexDigits == <<"0","1","2","3","4","5","6","7","8","9","a","b","c","d","e","f">>
UpperHex  == <<"0","1","2","3","4","5","6","7","8","9","A","B","C","D","E","F">>

IsHex(c) == \E i \in 1..16 : HexDigits[i] = c \/ UpperHex[i] = c
HexVal(c) == (CHOOSE i \in 1..16 : HexDigits[i] = c \/ UpperHex[i] = c) - 1

RECURSIVE ToHex(_, _)
ToHex(k, width) ==
    IF width = 0 THEN << >>
    ELSE Append(ToHex(k \div 16, width - 1), HexDigits[(k % 16) + 1])

RECURSIVE FromHex(_)
FromHex(chars) ==
    IF chars = << >> THEN 0
    ELSE FromHex(SubSeq(chars, 1, Len(chars) - 1)) * 16 + HexVal(chars[Len(chars)])

\* ObjectId.is_valid(post_id): a 24-character hexadecimal string
is_valid(post_id) ==
    /\ Len(post_id) = 24
    /\ \A i \in 1..Len(post_id) : IsHex(post_id[i])

\* ObjectId(post_id)
ObjectId(post_id) == Oid(FromHex(post_id))

\* str(oid)
OidStr(oid) == ToHex(oid.n, 24)

-----------------------------------------------------------------------------
(* datetime.isoformat() of a day of January 2024 *)

Decimal == <<"0","1","2","3","4","5","6","7","8","9">>
isoformat(v) ==
    <<"2","0","2","4","-","0","1","-">>
        \o <<Decimal[(v.n \div 10) + 1], Decimal[(v.n % 10) + 1]>>

-----------------------------------------------------------------------------
(* _normalize *)

\* variant: an "id" field the document already has is kept (dict.setdefault)
normalize_keeping_id_field(doc) ==
    IF doc = NoDoc THEN doc
    ELSE LET d == IF Has(doc, "_id") /\ ~Has(doc, "id")
                  THEN Put(Pop(doc, "_id"), "id", Str(OidStr(doc["_id"])))
                  ELSE Pop(doc, "_id")
         IN [k \in DOMAIN d |->
                IF d[k].kind = "datetime" THEN Str(isoformat(d[k])) ELSE d[k]]

_normalize(doc) ==
    IF doc = NoDoc THEN doc
    ELSE LET d == IF Has(doc, "_id")
                  THEN Put(Pop(doc, "_id"), "id", Str(OidStr(doc["_id"])))
                  ELSE doc
         IN [k \in DOMAIN d |->
                IF d[k].kind = "datetime" THEN Str(isoformat(d[k])) ELSE d[k]]

-----------------------------------------------------------------------------
(* Text constants of the handlers *)

InvalidId == <<"I","n","v","a","l","i","d"," ","i","d">>
NotFound  == <<"N","o","t"," ","f","o","u","n","d">>
Deleted   == <<"d","e","l","e","t","e","d">>
\* str(TypeError) of db["post"] when db is None
NoneTypeError ==
    <<"'","N","o","n","e","T","y","p","e","'"," ","o","b","j","e","c","t"," ",
      "i","s"," ","n","o","t"," ","s","u","b","s","c","r","i","p","t","a","b","l","e">>
\* str(e) of a store call that fails (the text is the driver's)
StoreError == <<"t","i","m","e","d"," ","o","u","t">>
\* body of the framework's answer to an exception no handler catches
InternalServerError ==
    <<"I","n","t","e","r","n","a","l"," ","S","e","r","v","e","r"," ","E","r","r","o","r">>
RootMessage ==
    <<"T","h","e"," ","F","o","r","e","i","g","n"," ","D","e","s","k"," ",
      "b","a","c","k","e","n","d"," ","i","s"," ","r","u","n","n","i","n","g">>
\* the status texts of /test (their leading emoji left out)
Running       == <<"R","u","n","n","i","n","g">>
NotAvailable  == <<"N","o","t"," ","A","v","a","i","l","a","b","l","e">>
Connected     == <<"C","o","n","n","e","c","t","e","d">>
NotConfigured == <<"N","o","t"," ","C","o","n","f","i","g","u","r","e","d">>
ConnectedButError ==
    <<"C","o","n","n","e","c","t","e","d"," ","b","u","t"," ","e","r","r","o","r",":"," ">>

-----------------------------------------------------------------------------
(* The documents and inputs the model draws from *)

\* identifiers of the documents the collection may hold before the first request
LegacyIds == {10, 11}
FirstNewId == (CHOOSE m \in LegacyIds : \A k \in LegacyIds : k <= m) + 1

\* a document written by an older writer: no region, excerpt, tags or content,
\* a datetime date and an extra datetime field
Legacy1 ==
    [f \in {"_id", "title", "date", "created_at"} |->
        CASE f = "_id"        -> Oid(10)
          [] f = "title"      -> Str(<<"A","b">>)
          [] f = "date"       -> DateTime(7)
          [] f = "created_at" -> DateTime(15)]

\* a document with none of the searched fields, and a field already named "id"
Legacy2 ==
    [f \in {"_id", "content", "id"} |->
        CASE f = "_id"     -> Oid(11)
          [] f = "content" -> List(<< <<"b">> >>)
          [] f = "id"      -> Str(<<"x">>)]

LegacyDocs == {Legacy1, Legacy2}

\* request bodies of POST /api/posts, already validated as Post
Body1 ==
    [title   |-> Str(<<"A","b">>), region  |-> Str(<<"b">>),
     excerpt |-> Str(<< >>),       date    |-> Str(<<"a">>),
     tags    |-> List(<< <<"a","B">> >>), content |-> List(<< <<"b">> >>)]
Body2 ==
    [title   |-> Str(<<"b","a">>), region  |-> Str(<<"A",".">>),
     excerpt |-> Str(<<"b">>),     date    |-> Null,
     tags    |-> List(<< >>),      content |-> List(<< >>)]
PostBodies == {Body1, Body2}

\* the q parameter: absent (None) or a string
NoQ == [given |-> FALSE, s |-> << >>]
Q(chars) == [given |-> TRUE, s |-> chars]
Queries == {NoQ, Q(<< >>), Q(<<"B">>), Q(<<".">>), Q(<<"a","b">>)}

\* the limit parameter: absent or an integer
NoLimit == [given |-> FALSE, n |-> 0]
Limit(k) == [given |-> TRUE, n |-> k]
Limits == {NoLimit} \cup {Limit(k) : k \in 0..MaxLimit}

\* the {post_id} path parameter
NotAnId  == <<"n","o","t","-","a","n","-","i","d">>
ShortHex == [i \in 1..23 |-> "0"]
NonHex   == [i \in 1..24 |-> IF i = 24 THEN "g" ELSE "0"]
UpperId  == [i \in 1..24 |-> IF i = 24 THEN "A" ELSE "0"]
Malformed == {NotAnId, ShortHex, NonHex}
WellFormed ==
    {OidStr(Oid(k)) : k \in (LegacyIds \cup (FirstNewId..(FirstNewId + MaxPosts)))}
        \cup {UpperId}
PathIds == Malformed \cup WellFormed

-----------------------------------------------------------------------------
(* The document store: find_one, delete_one, $or / $regex matching *)

StoredIds(st) == {d["_id"].n : d \in st}

\* db["post"].find_one({"_id": oid}): the document, or None
find_one(st, oid) ==
    IF \E d \in st : d["_id"] = oid
    THEN CHOOSE d \in st : d["_id"] = oid
    ELSE NoDoc

\* db["post"].delete_one({"_id": oid}): the collection left, and deleted_count
\* variant: deleted_count is 1 for every acknowledged delete
delete_one_acknowledged(st, oid) ==
    [store |-> {d \in st : d["_id"] # oid}, deleted_count |-> 1]

\* variant: the filter is dropped and every document goes (delete_many({}))
delete_one_all(st, oid) ==
    [store |-> {}, deleted_count |-> Cardinality(st)]

delete_one(st, oid) ==
    [store         |-> {d \in st : d["_id"] # oid},
     deleted_count |-> Cardinality({d \in st : d["_id"] = oid})]

Lower(c) == CASE c = "A" -> "a" [] c = "B" -> "b" [] OTHER -> c

\* one pattern character against one text character, option "i";
\* "." is the pattern metacharacter the model knows
\* variant: without option "i"
MatchCharExact(p, c) == p = "." \/ p = c
MatchChar(p, c) == p = "." \/ Lower(p) = Lower(c)

\* re.search(pattern, text, IGNORECASE)
RegexSearch(pattern, text) ==
    \E i \in 0..(Len(text) - Len(pattern)) :
        \A j \in 1..Len(pattern) : MatchChar(pattern[j], text[i + j])

\* {field: {"$regex": ..., "$options": "i"}}: a string field is searched, an
\* array field matches when one of its elements does, a missing field never
ClauseMatches(doc, clause) ==
    /\ Has(doc, clause.field)
    /\ LET v == doc[clause.field]
       IN \/ v.kind = "str" /\ RegexSearch(clause.regex, v.s)
          \/ v.kind = "list" /\ \E i \in 1..Len(v.l) : RegexSearch(clause.regex, v.l[i])

\* a filter is the sequence of its $or clauses; {} is the empty sequence
Matches(doc, filter_dict) ==
    \/ filter_dict = << >>
    \/ \E i \in 1..Len(filter_dict) : ClauseMatches(doc, filter_dict[i])

-----------------------------------------------------------------------------
(* database.py: create_document and get_documents, as sections 4.1 and 4.4  *)
(* of the specification describe them                                       *)

RECURSIVE Ascending(_)
Ascending(docs) ==
    IF docs = {} THEN << >>
    ELSE LET m == CHOOSE d \in docs : \A e \in docs : d["_id"].n <= e["_id"].n
         IN <<m>> \o Ascending(docs \ {m})

Reverse(seq) == [i \in 1..Len(seq) |-> seq[Len(seq) + 1 - i]]

\* the orders the store may return documents in ("store-default order")
Orders == {"ascending", "descending"}

\* find(collection, filter, limit): at most `limit` of the matching documents
get_documents(st, filter_dict, limit, order) ==
    LET hits == Ascending({d \in st : Matches(d, filter_dict)})
        seq  == IF order = "ascending" THEN hits ELSE Reverse(hits)
    IN SubSeq(seq, 1, Min(limit, Len(seq)))

\* insert(collection, document): the document stored verbatim under a new
\* identifier, which is returned in its string form
create_document(st, post, oid) ==
    [store |-> st \cup {Put(post, "_id", oid)}, inserted_id |-> OidStr(oid)]

-----------------------------------------------------------------------------
(* The handlers.  Each returns the response (status, JSON body or, for the  *)
(* list, items), the collection it leaves, and what it did with the store:  *)
(* made = a store call was attempted, ok = the call returned.               *)
(* dbh: db is not None;  up: the store call of this request returns         *)
(* rather than raises.                                                      *)

Result(status, body, items, st, made, ok) ==
    [status |-> status, body |-> body, items |-> items, store |-> st,
     made |-> made, ok |-> ok]

Json1(k, v) == [f \in {k} |-> v]
Detail(text) == Json1("detail", Str(text))

\* GET /
read_root(st) ==
    Result(200, Json1("message", Str(RootMessage)), << >>, st, FALSE, FALSE)

\* str(e)[:80]
\* variant: str(e) without the slice
truncate_nothing(text) == text
Truncate80(text) == SubSeq(text, 1, Min(80, Len(text)))
\* db.list_collection_names()[:10]
First10(names) == SubSeq(names, 1, Min(10, Len(names)))

\* GET /test; names: what list_collection_names returns, error: str(e) when it raises
test_database(dbh, st, up, names, error) ==
    LET status0 == [backend |-> Str(Running), database |-> Str(NotAvailable),
                    collections |-> List(<< >>)]
        status1 ==
            IF dbh
            THEN IF up
                 THEN [status0 EXCEPT !.database = Str(Connected),
                                      !.collections = List(First10(names))]
                 ELSE [status0 EXCEPT
                          !.database = Str(ConnectedButError \o Truncate80(error))]
            ELSE [status0 EXCEPT !.database = Str(NotConfigured)]
    IN Result(200, status1, << >>, st, dbh, dbh /\ up)

\* variant: the filter is built whenever q is not None
build_filter_if_given(q) ==
    IF q.given
    THEN << [field |-> "title",   regex |-> q.s, options |-> "i"],
            [field |-> "region",  regex |-> q.s, options |-> "i"],
            [field |-> "excerpt", regex |-> q.s, options |-> "i"],
            [field |-> "tags",    regex |-> q.s, options |-> "i"] >>
    ELSE << >>

\* the filter of list_posts: {} unless q is truthy
build_filter(q) ==
    IF q.given /\ q.s # << >>
    THEN << [field |-> "title",   regex |-> q.s, options |-> "i"],
            [field |-> "region",  regex |-> q.s, options |-> "i"],
            [field |-> "excerpt", regex |-> q.s, options |-> "i"],
            [field |-> "tags",    regex |-> q.s, options |-> "i"] >>
    ELSE << >>

\* variant: nd.get(field) without a default
project_no_defaults(nd) ==
    [title   |-> Get(nd, "title", Null),
     region  |-> Get(nd, "region", Null),
     excerpt |-> Get(nd, "excerpt", Null),
     date    |-> Get(nd, "date", Null),
     tags    |-> Get(nd, "tags", Null),
     content |-> Get(nd, "content", Null)]

\* the Post-like dict list_posts builds from a normalized document
project(nd) ==
    [title   |-> Get(nd, "title", Str(<< >>)),
     region  |-> Get(nd, "region", Str(<< >>)),
     excerpt |-> Get(nd, "excerpt", Str(<< >>)),
     date    |-> Get(nd, "date", Null),
     tags    |-> Get(nd, "tags", List(<< >>)),
     content |-> Get(nd, "content", List(<< >>))]

\* limit: int = 50
DefaultLimit == 50
limit_or_default(limit) == IF limit.given THEN limit.n ELSE DefaultLimit

\* GET /api/posts; an exception of get_documents is not caught: the framework
\* answers 500
list_posts(q, limit, dbh, st, up, order) ==
    IF ~dbh \/ ~up
    THEN Result(500, Detail(InternalServerError), << >>, st, TRUE, FALSE)
    ELSE LET filter_dict == build_filter(q)
             docs == get_documents(st, filter_dict, limit, order)
             normalized == [i \in 1..Len(docs) |-> project(_normalize(docs[i]))]
         IN Result(200, NoDoc, normalized, st, TRUE, TRUE)

\* POST /api/posts
create_post(post, dbh, st, up, oid) ==
    IF ~dbh \/ ~up
    THEN Result(500, Detail(StoreError), << >>, st, TRUE, FALSE)
    ELSE LET res == create_document(st, post, oid)
         IN Result(200, Json1("id", Str(res.inserted_id)), << >>, res.store, TRUE, TRUE)

\* variant: no is_valid test, so db is touched first and ObjectId(post_id)
\* raises on a malformed identifier
get_post_unchecked(post_id, dbh, st, up) ==
    IF ~dbh THEN Result(500, Detail(NoneTypeError), << >>, st, FALSE, FALSE)
    ELSE IF ~up \/ ~is_valid(post_id)
    THEN Result(500, Detail(StoreError), << >>, st, TRUE, FALSE)
    ELSE LET doc == find_one(st, ObjectId(post_id))
         IN IF doc = NoDoc
            THEN Result(404, Detail(NotFound), << >>, st, TRUE, TRUE)
            ELSE Result(200, _normalize(doc), << >>, st, TRUE, TRUE)

\* variant: the lookup is made with the string, not ObjectId(post_id)
get_post_string_lookup(post_id, dbh, st, up) ==
    IF ~is_valid(post_id)
    THEN Result(400, Detail(InvalidId), << >>, st, FALSE, FALSE)
    ELSE IF ~dbh THEN Result(500, Detail(NoneTypeError), << >>, st, FALSE, FALSE)
    ELSE IF ~up THEN Result(500, Detail(StoreError), << >>, st, TRUE, FALSE)
    ELSE LET doc == find_one(st, Str(post_id))
         IN IF doc = NoDoc
            THEN Result(404, Detail(NotFound), << >>, st, TRUE, TRUE)
            ELSE Result(200, _normalize(doc), << >>, st, TRUE, TRUE)

\* GET /api/posts/{post_id}
get_post(post_id, dbh, st, up) ==
    IF ~is_valid(post_id)
    THEN Result(400, Detail(InvalidId), << >>, st, FALSE, FALSE)
    ELSE IF ~dbh THEN Result(500, Detail(NoneTypeError), << >>, st, FALSE, FALSE)
    ELSE IF ~up THEN Result(500, Detail(StoreError), << >>, st, TRUE, FALSE)
    ELSE LET doc == find_one(st, ObjectId(post_id))
         IN IF doc = NoDoc
            THEN Result(404, Detail(NotFound), << >>, st, TRUE, TRUE)
            ELSE Result(200, _normalize(doc), << >>, st, TRUE, TRUE)

\* the answer of delete_post to the result of delete_one
delete_answer(res) ==
    IF res.deleted_count = 0 THEN Detail(NotFound) ELSE Json1("status", Str(Deleted))
\* variant: deleted_count is not looked at
delete_status_ignoring_count(res) == 200
delete_status(res) == IF res.deleted_count = 0 THEN 404 ELSE 200

\* DELETE /api/posts/{post_id}
delete_post(post_id, dbh, st, up) ==
    IF ~is_valid(post_id)
    THEN Result(400, Detail(InvalidId), << >>, st, FALSE, FALSE)
    ELSE IF ~dbh THEN Result(500, Detail(NoneTypeError), << >>, st, FALSE, FALSE)
    ELSE IF ~up THEN Result(500, Detail(StoreError), << >>, st, TRUE, FALSE)
    ELSE LET res == delete_one(st, ObjectId(post_id))
         IN Result(delete_status(res), delete_answer(res), << >>, res.store, TRUE, TRUE)

-----------------------------------------------------------------------------
(* The requests, one at a time: each action is one whole handler *)

Req(op, id, q, limit, body) ==
    [op |-> op, id |-> id, q |-> q, limit |-> limit, body |-> body]
NoReq == Req("none", << >>, NoQ, NoLimit, NoDoc)

NoCall == [made |-> FALSE, ok |-> FALSE, error |-> << >>, names |-> << >>]
\* a concurrent request: where it is, what it asks, its answer, whether its
\* store call returned, and whether another request for the same identifier
\* was in flight when the call was made
Idle == [pc |-> "idle", op |-> "none", id |-> << >>, status |-> 0, body |-> NoDoc,
         ok |-> FALSE, raced |-> FALSE]

\* what list_collection_names may return, and the texts it may raise
CollectionName(i) == <<"c", Decimal[(i \div 10) + 1], Decimal[(i % 10) + 1]>>
NameLists == {[i \in 1..k |-> CollectionName(i)] : k \in {0, 10, 11}}
ErrorTexts == {[i \in 1..k |-> Decimal[(i % 10) + 1]] : k \in {0, 80, 81}}

Init ==
    /\ db \in BOOLEAN
    /\ store = (IF db THEN LegacyDocs ELSE {})
    /\ nextId = FirstNewId
    /\ req = NoReq
    /\ resp = [status |-> 0, body |-> NoDoc, items |-> << >>]
    /\ call = NoCall
    /\ created = << >>
    /\ deleted = {}
    /\ clients = [c \in 1..NumClients |-> Idle]

\* the response is sent and the handler's effect on the collection is kept
Answer(r, error, names) ==
    /\ resp' = [status |-> r.status, body |-> r.body, items |-> r.items]
    /\ store' = r.store
    /\ call' = [made |-> r.made, ok |-> r.ok, error |-> error, names |-> names]

ReadRoot ==
    /\ req' = Req("root", << >>, NoQ, NoLimit, NoDoc)
    /\ Answer(read_root(store), << >>, << >>)
    /\ UNCHANGED <<db, nextId, created, deleted, clients>>

TestDatabase ==
    \E up \in BOOLEAN, names \in NameLists, error \in ErrorTexts :
        /\ up => error = << >>
        /\ ~up => names = << >>
        /\ req' = Req("test", << >>, NoQ, NoLimit, NoDoc)
        /\ Answer(test_database(db, store, up, names, error), error, names)
        /\ UNCHANGED <<db, nextId, created, deleted, clients>>

ListPosts ==
    \E q \in Queries, limit \in Limits, up \in BOOLEAN, order \in Orders :
        /\ up \/ order = "ascending"    \* a call that raises returns in no order
        /\ req' = Req("list", << >>, q, limit, NoDoc)
        /\ Answer(list_posts(q, limit_or_default(limit), db, store, up, order),
                  << >>, << >>)
        /\ UNCHANGED <<db, nextId, created, deleted, clients>>

CreatePost ==
    \E post \in PostBodies, up \in BOOLEAN :
        /\ nextId < FirstNewId + MaxPosts
        /\ LET r == create_post(post, db, store, up, Oid(nextId))
           IN /\ req' = Req("create", << >>, NoQ, NoLimit, post)
              /\ Answer(r, << >>, << >>)
              /\ IF r.status = 200
                 THEN /\ nextId' = nextId + 1
                      /\ created' = created @@
                           (ObjectId(r.body["id"].s).n :>
                              [id |-> r.body["id"].s, post |-> post])
                 ELSE UNCHANGED <<nextId, created>>
        /\ UNCHANGED <<db, deleted, clients>>

GetPost ==
    \E post_id \in PathIds, up \in BOOLEAN :
        /\ req' = Req("get", post_id, NoQ, NoLimit, NoDoc)
        /\ Answer(get_post(post_id, db, store, up), << >>, << >>)
        /\ UNCHANGED <<db, nextId, created, deleted, clients>>

DeletePost ==
    \E post_id \in PathIds, up \in BOOLEAN :
        /\ LET r == delete_post(post_id, db, store, up)
           IN /\ req' = Req("delete", post_id, NoQ, NoLimit, NoDoc)
              /\ Answer(r, << >>, << >>)
              /\ IF r.status = 200
                 THEN /\ deleted' = deleted \cup {ObjectId(post_id).n}
                      /\ created' = [k \in DOMAIN created \ {ObjectId(post_id).n}
                                        |-> created[k]]
                 ELSE UNCHANGED <<deleted, created>>
        /\ UNCHANGED <<db, nextId, clients>>

Next ==
    \/ ReadRoot
    \/ TestDatabase
    \/ ListPosts
    \/ CreatePost
    \/ GetPost
    \/ DeletePost

Spec == Init /\ [][Next]_vars

-----------------------------------------------------------------------------
(* Concurrent requests.  A handler makes one store call, atomic in the     *)
(* store; what precedes it (validation) and follows it (building the       *)
(* answer) is local to the request.  Start receives a request; Serve is    *)
(* the store call, taken against the collection as it is at that moment,   *)
(* and the answer.                                                         *)

\* the identifiers the concurrent requests name: a stored one and an absent one
ConcIds == {OidStr(Oid(10)), OidStr(Oid(FirstNewId))}

ConcInit == Init /\ db

Start(c) ==
    \E op \in {"get", "delete"}, post_id \in ConcIds :
        /\ clients[c].pc = "idle"
        /\ clients' = [clients EXCEPT ![c] =
                          [Idle EXCEPT !.pc = "running", !.op = op, !.id = post_id]]
        /\ UNCHANGED <<db, store, nextId, req, resp, call, created, deleted>>

\* another request for the identifier of c is between Start and Serve
InFlight(c) ==
    \E o \in 1..NumClients \ {c} :
        clients[o].pc = "running" /\ clients[o].id = clients[c].id

Serve(c) ==
    \E up \in BOOLEAN :
        /\ clients[c].pc = "running"
        /\ LET r == IF clients[c].op = "get"
                    THEN get_post(clients[c].id, db, store, up)
                    ELSE delete_post(clients[c].id, db, store, up)
           IN /\ store' = r.store
              /\ clients' = [clients EXCEPT ![c] =
                                [@ EXCEPT !.pc = "done", !.status = r.status,
                                          !.body = r.body, !.ok = r.ok,
                                          !.raced = InFlight(c)]]
        /\ UNCHANGED <<db, nextId, req, resp, call, created, deleted>>

ConcNext == \E c \in 1..NumClients : Start(c) \/ Serve(c)

ConcSpec == ConcInit /\ [][ConcNext]_vars

-----------------------------------------------------------------------------
(* Vocabulary of the properties *)

PostFields == {"title", "region", "excerpt", "date", "tags", "content"}

\* the limit in force for the last request
LimitInForce == IF req.limit.given THEN req.limit.n ELSE DefaultLimit

\* q is absent or empty
NoSearch == ~req.q.given \/ req.q.s = << >>

\* text contains q as a substring, letter case ignored
ContainsCI(q, text) ==
    \E i \in 0..(Len(text) - Len(q)) :
        \A j \in 1..Len(q) : Lower(q[j]) = Lower(text[i + j])

\* q is a substring of the title, region, excerpt or a tags element of a
\* document or response post
AnyFieldContains(q, p) ==
    \/ \E f \in {"title", "region", "excerpt"} :
          Has(p, f) /\ p[f].kind = "str" /\ ContainsCI(q, p[f].s)
    \/ /\ Has(p, "tags")
       /\ \E i \in 1..Len(p["tags"].l) : ContainsCI(q, p["tags"].l[i])

TitleContains(q, d) ==
    Has(d, "title") /\ d["title"].kind = "str" /\ ContainsCI(q, d["title"].s)

\* q holds no regular-expression metacharacter
NoMeta(q) == \A j \in 1..Len(q) : q[j] # "."

\* the Post a stored document is listed as, every field exactly as stored
PostAsStored(d) ==
    [title   |-> IF Has(d, "title") THEN d["title"] ELSE Str(<< >>),
     region  |-> IF Has(d, "region") THEN d["region"] ELSE Str(<< >>),
     excerpt |-> IF Has(d, "excerpt") THEN d["excerpt"] ELSE Str(<< >>),
     date    |-> IF Has(d, "date") THEN d["date"] ELSE Null,
     tags    |-> IF Has(d, "tags") THEN d["tags"] ELSE List(<< >>),
     content |-> IF Has(d, "content") THEN d["content"] ELSE List(<< >>)]

\* the same, a stored datetime date rendered as its ISO-8601 string
PostRendered(d) ==
    [PostAsStored(d) EXCEPT
        !.date = IF @.kind = "datetime" THEN Str(isoformat(@)) ELSE @]

PostShaped(p) ==
    /\ DOMAIN p = PostFields
    /\ \A f \in {"title", "region", "excerpt"} : p[f].kind = "str"
    /\ \A f \in {"tags", "content"} : p[f].kind = "list"

ListedOk == req.op = "list" /\ call.ok
Listed(d) == \E i \in 1..Len(resp.items) : resp.items[i] = PostRendered(d)

-----------------------------------------------------------------------------
(* The properties *)

\* the last request fetched or deleted by a well-formed identifier
ById(op) == req.op = op /\ is_valid(req.id)
ReqId == ObjectId(req.id).n

\* C1: a GET /api/posts/{id} with an identifier a successful POST returned,
\* before any DELETE of it, is answered 200 with the document that was
\* inserted: the field values of the request body, and id equal to the returned
\* identifier; whatever was created or deleted in between.  (A GET whose store
\* call raises is answered 500 by the handler's generic branch instead.)
C1_CreatedPostIsFetched ==
    \A k \in DOMAIN created :
        (req.op = "get" /\ req.id = created[k].id /\ call.ok)
            => /\ resp.status = 200
               /\ resp.body = Put(created[k].post, "id", Str(created[k].id))

\* C1 witness: a created post fetched after another create and a delete
C1_Witness ==
    /\ req.op = "get" /\ resp.status = 200
    /\ \E k \in DOMAIN created : req.id = created[k].id
    /\ nextId = FirstNewId + 2
    /\ deleted # {}

\* C2: once DELETE has answered "deleted" for an identifier, every later GET
\* and every later DELETE of that identifier is answered 404 (never 500), as
\* long as the store is reachable
C2_DeletedStaysGone ==
    [][(/\ req'.op \in {"get", "delete"}
        /\ is_valid(req'.id)
        /\ ObjectId(req'.id).n \in deleted
        /\ call'.ok)
          => resp'.status = 404]_vars

\* C2 witness: a second DELETE of a deleted identifier, answered 404
C2_Witness ==
    /\ ById("delete") /\ ReqId \in deleted
    /\ resp.status = 404

\* C3: for GET and DELETE by identifier, a malformed identifier is answered
\* 400 with no store call attempted and the stored posts unchanged, with or
\* without a store handle; a well-formed identifier that the store finds no
\* document for is answered 404
C3_MalformedIs400AbsentIs404 ==
    [][req'.op \in {"get", "delete"} =>
        /\ ~is_valid(req'.id) =>
              /\ resp'.status = 400
              /\ ~call'.made
              /\ store' = store
        /\ (/\ is_valid(req'.id)
            /\ call'.ok
            /\ ObjectId(req'.id).n \notin StoredIds(store))
              => resp'.status = 404]_vars

\* C3 witness: a malformed identifier refused while the store handle is missing
C3_Witness ==
    /\ req.op = "delete" /\ ~is_valid(req.id)
    /\ ~db
    /\ resp.status = 400

\* _normalize hides "_id" and gives the identifier's string form as "id"
NormalizedOk(d) ==
    LET nd == _normalize(d)
    IN /\ ~Has(nd, "_id")
       /\ Has(nd, "id")
       /\ nd["id"] = Str(OidStr(d["_id"]))

FetchedOk ==
    (ById("get") /\ resp.status = 200) =>
        /\ ~Has(resp.body, "_id")
        /\ Has(resp.body, "id")
        /\ resp.body["id"] = Str(OidStr(ObjectId(req.id)))

\* C4 as stated: _normalize of every stored document has no "_id" and has "id"
\* equal to the string form of the stored identifier, also when the document
\* has a field named "id"; and every response built from a stored document,
\* the single fetch and the list, has no "_id" and carries "id"
C4_AsStated ==
    /\ \A d \in store : NormalizedOk(d)
    /\ FetchedOk
    /\ ListedOk =>
          \A i \in 1..Len(resp.items) :
              ~Has(resp.items[i], "_id") /\ Has(resp.items[i], "id")

\* C4 amended: as stated for _normalize and for the single fetch; the posts of
\* the list never expose "_id" either, but hold the Post fields only, so they
\* carry no "id"
C4_IdentifierNeverExposed ==
    /\ \A d \in store : NormalizedOk(d)
    /\ FetchedOk
    /\ ListedOk =>
          \A i \in 1..Len(resp.items) :
              ~Has(resp.items[i], "_id") /\ ~Has(resp.items[i], "id")

\* C4 witness: a stored document that has a field named "id" is fetched
C4_Witness ==
    /\ ById("get") /\ resp.status = 200
    /\ \E d \in store : d["_id"] = ObjectId(req.id) /\ Has(d, "id")


\* C5: GET /api/posts with q empty or absent applies no filter and returns
\* exactly min(limit, N) posts, N the number of stored posts and limit 50 when
\* absent; no list holds more than limit posts; an empty store gives an empty
\* sequence, not an error
C5_UnfilteredListLength ==
    ListedOk =>
        /\ resp.status = 200
        /\ Len(resp.items) <= LimitInForce
        /\ NoSearch => Len(resp.items) = Min(LimitInForce, Cardinality(store))
        /\ store = {} => resp.items = << >>

\* C5 witness: limit=2 against more than two stored posts returns two
C5_Witness ==
    /\ ListedOk /\ NoSearch
    /\ req.limit = Limit(2)
    /\ Cardinality(store) > 2
    /\ Len(resp.items) = 2

\* C6 as stated: for a non-empty q, every stored post whose title contains q,
\* letter case ignored, is in the response, and every post of the response has
\* q, letter case ignored, in its title, region, excerpt or a tags element
C6_AsStated ==
    (ListedOk /\ ~NoSearch) =>
        /\ \A d \in store : TitleContains(req.q.s, d) => Listed(d)
        /\ \A i \in 1..Len(resp.items) : AnyFieldContains(req.q.s, resp.items[i])

\* C6 amended: for a non-empty q without regular-expression metacharacters,
\* every post of the response has q, letter case ignored, in its title,
\* region, excerpt or a tags element; and when no more than limit stored posts
\* have, every stored post whose title contains q is in the response
C6_SearchMatches ==
    (ListedOk /\ ~NoSearch /\ NoMeta(req.q.s)) =>
        /\ Cardinality({d \in store : AnyFieldContains(req.q.s, d)}) <= LimitInForce
              => \A d \in store : TitleContains(req.q.s, d) => Listed(d)
        /\ \A i \in 1..Len(resp.items) : AnyFieldContains(req.q.s, resp.items[i])

\* C6 witness: q "ab" finds the post titled "Ab"
C6_Witness ==
    /\ ListedOk /\ req.q = Q(<<"a","b">>)
    /\ \E d \in store : Has(d, "title") /\ d["title"] = Str(<<"A","b">>) /\ Listed(d)

\* C7 as stated: GET /api/posts does not fail on stored posts that lack Post
\* fields; each post returned is a stored post with title, region and excerpt
\* strings ("" when missing), tags and content sequences ([] when missing),
\* date as stored, and no other field
C7_AsStated ==
    ListedOk =>
        /\ resp.status = 200
        /\ \A i \in 1..Len(resp.items) :
              /\ PostShaped(resp.items[i])
              /\ \E d \in store : resp.items[i] = PostAsStored(d)

\* C7 amended: the same, except that a date stored as a datetime is returned
\* as its ISO-8601 string
C7_MissingFieldsDefaulted ==
    ListedOk =>
        /\ resp.status = 200
        /\ \A i \in 1..Len(resp.items) :
              /\ PostShaped(resp.items[i])
              /\ \E d \in store : resp.items[i] = PostRendered(d)

\* C7 witness: a stored post without tags is listed with tags []
C7_Witness ==
    /\ ListedOk
    /\ \E i \in 1..Len(resp.items) :
          /\ resp.items[i].tags = List(<< >>)
          /\ \E d \in store : ~Has(d, "tags") /\ resp.items[i] = PostRendered(d)

\* C8: every GET leaves the stored documents as they are, whatever it answers;
\* only a POST adds a document, exactly one and under a fresh identifier; only
\* a DELETE answered 200 removes one, exactly the document of that identifier;
\* a DELETE answered 400 or 404 changes nothing
C8_FrameEffects ==
    [][/\ req'.op \in {"root", "test", "list", "get"} => store' = store
       /\ (req'.op = "delete" /\ resp'.status \in {400, 404}) => store' = store
       /\ (req'.op = "delete" /\ resp'.status = 200) =>
             /\ ObjectId(req'.id).n \in StoredIds(store)
             /\ store' = {d \in store : d["_id"].n # ObjectId(req'.id).n}
       /\ (req'.op = "create" /\ resp'.status = 200) =>
             \E d \in store' :
                 /\ d["_id"].n \notin StoredIds(store) \cup deleted
                 /\ d \notin store
                 /\ store' = store \cup {d}
       /\ store' # store =>
             /\ req'.op \in {"create", "delete"}
             /\ resp'.status = 200]_vars

\* C8 witness: a DELETE answered 200 that left other documents stored
C8_Witness ==
    /\ ById("delete") /\ resp.status = 200
    /\ store # {}

\* C9: GET /test always answers 200 with backend running; without a store
\* handle it reports "Not Configured" and calls nothing; when the enumeration
\* raises, the database field carries at most the first 80 characters of the
\* error text; when it returns, at most 10 collection names are listed
C9_DiagnosticNeverFails ==
    req.op = "test" =>
        /\ resp.status = 200
        /\ resp.body["backend"] = Str(Running)
        /\ ~db => /\ resp.body["database"] = Str(NotConfigured)
                  /\ ~call.made
        /\ (db /\ ~call.ok) =>
              \E k \in 0..80 :
                  /\ k <= Len(call.error)
                  /\ resp.body["database"] =
                        Str(ConnectedButError \o SubSeq(call.error, 1, k))
        /\ (db /\ call.ok) =>
              /\ Len(resp.body["collections"].l) <= 10
              /\ \A i \in 1..Len(resp.body["collections"].l) :
                    resp.body["collections"].l[i] = call.names[i]

\* C9 witness: an error text of more than 80 characters was reported
C9_Witness ==
    /\ req.op = "test" /\ db /\ ~call.ok
    /\ Len(call.error) > 80


\* the DELETE requests of ConcSpec for an identifier, and the finished ones
Deleters(id) ==
    {c \in 1..NumClients : clients[c].op = "delete" /\ clients[c].id = id}
Done(c) == clients[c].pc = "done"

\* body holds every field of stored document d, "_id" given as "id"
FullDocument(body, d) ==
    /\ DOMAIN body = (DOMAIN d \ {"_id"}) \cup {"id"}
    /\ \A f \in DOMAIN d \ {"_id", "id"} :
          d[f].kind # "datetime" => body[f] = d[f]

\* C10: of the DELETE requests running concurrently for one stored identifier,
\* at most one is answered "deleted", and once all have been served exactly one
\* is and all the others are answered 404; none is answered 500; a concurrent
\* GET is answered the full document or 404.  (Requests whose store call
\* returns: one whose call raises is answered 500 by the generic branch.)
C10_OneDeleteWins ==
    /\ \A id \in ConcIds :
          ObjectId(id).n \in LegacyIds =>
            /\ Cardinality({c \in Deleters(id) :
                               Done(c) /\ clients[c].status = 200}) <= 1
            /\ (/\ Deleters(id) # {}
                /\ \A c \in Deleters(id) : Done(c) /\ clients[c].ok)
                  => /\ \E c \in Deleters(id) : clients[c].status = 200
                     /\ \A c \in Deleters(id) : clients[c].status \in {200, 404}
    /\ \A c \in 1..NumClients :
          (Done(c) /\ clients[c].ok) =>
            /\ clients[c].status # 500
            /\ clients[c].op = "get" =>
                  \/ clients[c].status = 404
                  \/ /\ clients[c].status = 200
                     /\ \E d \in LegacyDocs :
                           /\ d["_id"] = ObjectId(clients[c].id)
                           /\ FullDocument(clients[c].body, d)

\* C10 witness: two DELETE requests for the stored identifier were in flight
\* together; one was answered "deleted", the other 404, and a GET was served too
C10_Witness ==
    \E a, b, g \in 1..NumClients :
        /\ a # b
        /\ {a, b} \subseteq Deleters(OidStr(Oid(10)))
        /\ Done(a) /\ clients[a].status = 200 /\ clients[a].raced
        /\ Done(b) /\ clients[b].status = 404
        /\ clients[g].op = "get" /\ Done(g) /\ clients[g].raced

====
